---------------------------- MODULE Spec2Model ----------------------------
(***************************************************************************)
(* View state of the React PDF viewer (component App).                     *)
(*                                                                         *)
(* Two versions of the component are modelled:                             *)
(*   "pagination"  src/frontend/src/App.js   (numPages, pageNumber)        *)
(*   "thumbnails"  src/unnamed/part_001      (adds scale, the thumbnail    *)
(*                                            sidebar and goToPage)        *)
(* src/unnamed/part_000 has the same handlers as the pagination version.   *)
(*                                                                         *)
(* The state is the component's useState cells plus the load status of     *)
(* the <Document> elements it renders.  Every action is one event of the   *)
(* browser's event loop: the handler runs, React commits the state and     *)
(* re-renders before the next event.  A button with the disabled attribute *)
(* delivers no click, and an element that is not rendered delivers none.   *)
(***************************************************************************)
EXTENDS Integers, Sequences, FiniteSets, TLC

\* Largest page count the renderer reports in the model.
MaxPages == 4

\* Longest run of repeated handler applications the pure-updater checks unfold.
MaxRun == 6

VARIABLES
    version,        \* which App is running
    numPages,       \* useState(null)
    pageNumber,     \* useState(1)
    scale,          \* useState(1.0), an IEEE 754 double
    mainDoc,        \* load status of the main <Document>
    thumbDoc,       \* load status of the thumbnail <Document>
    consoleErrors,  \* number of console.error calls made by the component
    loadsSeen,      \* history: onDocumentLoadSuccess calls delivered so far
    firstLoader,    \* history: the <Document> whose load completed first
    lastEvent,      \* history: the last event handled
    runFrom,        \* history: pageNumber when the current run of equal events began
    runLen          \* history: length of the current run of equal navigation events

vars == <<version, numPages, pageNumber, scale, mainDoc, thumbDoc, consoleErrors,
          loadsSeen, firstLoader, lastEvent, runFrom, runLen>>

-----------------------------------------------------------------------------
(* JavaScript values *)

\* null, the initial value of numPages
NULL == -1

\* JavaScript truthiness of numPages: null and 0 are falsy.
Truthy(n) == n # NULL /\ n # 0

Min(a, b) == IF a <= b THEN a ELSE b

Max(a, b) == IF a >= b THEN a ELSE b

-----------------------------------------------------------------------------
(* IEEE 754 doubles in [0.25, 4).                                          *)
(* A double x is the pair <<hi, lo>> with x = (hi * LIMB + lo) * 2^-54;    *)
(* every double in [0.25, 4) is such a multiple, and so is every exact sum *)
(* or difference of two of them.  The sum is then rounded to the 53-bit    *)
(* significand of its binade, ties to even, as the hardware does.          *)

LIMB == 2^27

Norm(hi, lo) ==
    IF lo >= LIMB THEN <<hi + 1, lo - LIMB>>
    ELSE IF lo < 0 THEN <<hi - 1, lo + LIMB>>
    ELSE <<hi, lo>>

\* Spacing of the doubles around x, in units of 2^-54.
Ulp(x) ==
    IF x[1] < 2^26 THEN 1          \* [0.25, 0.5)
    ELSE IF x[1] < 2^27 THEN 2     \* [0.5, 1)
    ELSE IF x[1] < 2^28 THEN 4     \* [1, 2)
    ELSE 8                         \* [2, 4)

RoundNearestEven(x) ==
    LET g    == Ulp(x)
        r    == x[2] % g
        down == <<x[1], x[2] - r>>
        up   == Norm(x[1], x[2] - r + g)
    IN  IF r = 0 THEN x
        ELSE IF 2 * r < g THEN down
        ELSE IF 2 * r > g THEN up
        ELSE IF ((x[2] - r) \div g) % 2 = 0 THEN down
        ELSE up

FAdd(a, b) == RoundNearestEven(Norm(a[1] + b[1], a[2] + b[2]))

FSub(a, b) == RoundNearestEven(Norm(a[1] - b[1], a[2] - b[2]))

FLe(a, b) == a[1] < b[1] \/ (a[1] = b[1] /\ a[2] <= b[2])

FMin(a, b) == IF FLe(a, b) THEN a ELSE b

FMax(a, b) == IF FLe(a, b) THEN b ELSE a

\* The literals of the zoom code as doubles.
ZoomStep == <<26843545, 80530637>>     \* 0.2 = 3602879701896397 * 2^-54
ZoomCap == <<3 * LIMB, 0>>             \* 3.0
ZoomFloor == <<LIMB \div 2, 0>>        \* 0.5
InitialScale == <<LIMB, 0>>            \* 1.0

-----------------------------------------------------------------------------
(* Handlers: the value each handler stores *)

\* pageNumber after onDocumentLoadSuccess.
PageAfterLoadAlwaysReset(ver, pn) == 1
PageAfterLoad(ver, pn) ==
    IF ver = "pagination" THEN 1
    ELSE IF pn = 1 THEN 1 ELSE pn

goToPrevPageNoFloor(prevPageNumber) == prevPageNumber - 1
goToPrevPage(prevPageNumber) == Max(1, prevPageNumber - 1)

goToNextPageNoCap(np, prevPageNumber) == prevPageNumber + 1
goToNextPage(np, prevPageNumber) == Min(np, prevPageNumber + 1)

goToPageOffByOne(page) == page + 1
goToPage(page) == page

zoomInNoCap(prevScale) == FAdd(prevScale, ZoomStep)
zoomIn(prevScale) == FMin(FAdd(prevScale, ZoomStep), ZoomCap)

zoomOutQuarterStep(prevScale) == FMax(FSub(prevScale, <<LIMB \div 4, 0>>), ZoomFloor)
zoomOut(prevScale) == FMax(FSub(prevScale, ZoomStep), ZoomFloor)

-----------------------------------------------------------------------------
(* Render: what the JSX shows for the committed state *)

\* {numPages && (<Document ...>)} in the sidebar; the pagination version has none.
ThumbnailGateAlways(ver, np) == ver = "thumbnails"
ThumbnailGate(ver, np) == ver = "thumbnails" /\ Truthy(np)

\* Load status of the thumbnail <Document> after a render with numPages = np.
ThumbDocAfterRender(ver, np, cur) ==
    IF ThumbnailGate(ver, np)
    THEN (IF cur = "unmounted" THEN "loading" ELSE cur)
    ELSE "unmounted"

\* One sidebar item, from the Array.from callback.
ThumbItemByIndex(index, pn) == [page |-> index + 1, isActive |-> (index = pn)]
ThumbItem(index, pn) == [page |-> index + 1, isActive |-> (index + 1 = pn)]

RECURSIVE ThumbItems(_, _, _)
ThumbItems(index, n, pn) ==
    IF index >= n THEN <<>>
    ELSE <<ThumbItem(index, pn)>> \o ThumbItems(index + 1, n, pn)

\* The items the sidebar's JSX creates.
Thumbnails ==
    IF ThumbnailGate(version, numPages) THEN ThumbItems(0, numPages, pageNumber)
    ELSE <<>>

\* The items are children of the thumbnail <Document>, which shows them once
\* its own load has completed.
ThumbnailsClickable == thumbDoc = "loaded"

\* {numPages && (<div className="page-controls">...)}
ControlsRendered == Truthy(numPages)

PrevDisabledAtTwo == pageNumber <= 2
PrevDisabled == pageNumber <= 1

NextDisabled == pageNumber >= numPages

\* "Page {pageNumber} of {numPages}"
PageLabel == <<pageNumber, numPages>>

\* <Page pageNumber={pageNumber} .../> of the main <Document>
DisplayedPage == pageNumber

ZoomOutDisabled == FLe(scale, ZoomFloor)

ZoomInDisabled == FLe(ZoomCap, scale)

-----------------------------------------------------------------------------
(* Events *)

Event(op, arg) == [op |-> op, arg |-> arg]

Init ==
    /\ version \in {"pagination", "thumbnails"}
    /\ numPages = NULL
    /\ pageNumber = 1
    /\ scale = InitialScale
    /\ mainDoc = "loading"
    /\ thumbDoc = ThumbDocAfterRender(version, NULL, "unmounted")
    /\ consoleErrors = 0
    /\ loadsSeen = 0
    /\ firstLoader = "none"
    /\ lastEvent = Event("init", 0)
    /\ runFrom = 1
    /\ runLen = 0

\* The state change of onDocumentLoadSuccess({numPages: n}) and the history of it.
onDocumentLoadSuccess(n, who) ==
    /\ numPages' = n
    /\ pageNumber' = PageAfterLoad(version, pageNumber)
    /\ loadsSeen' = loadsSeen + 1
    /\ firstLoader' = IF firstLoader = "none" THEN who ELSE firstLoader
    /\ lastEvent' = Event("load", n)
    /\ runFrom' = pageNumber'
    /\ runLen' = 0
    /\ UNCHANGED <<version, scale, consoleErrors>>

\* The main <Document> finishes loading a document of n pages.
MainLoadSuccess ==
    \E n \in 0..MaxPages :
        /\ mainDoc = "loading"
        /\ onDocumentLoadSuccess(n, "main")
        /\ mainDoc' = "loaded"
        /\ thumbDoc' = ThumbDocAfterRender(version, n, thumbDoc)

\* The thumbnail <Document> finishes loading a document of n pages.
ThumbLoadSuccess ==
    \E n \in 0..MaxPages :
        /\ thumbDoc = "loading"
        /\ onDocumentLoadSuccess(n, "thumb")
        /\ thumbDoc' = ThumbDocAfterRender(version, n, "loaded")
        /\ UNCHANGED mainDoc

\* The main <Document> fails to load: onLoadError logs the message.
MainLoadError ==
    /\ mainDoc = "loading"
    /\ mainDoc' = "failed"
    /\ consoleErrors' = consoleErrors + 1
    /\ lastEvent' = Event("loadError", 0)
    /\ runFrom' = pageNumber
    /\ runLen' = 0
    /\ UNCHANGED <<version, numPages, pageNumber, scale, thumbDoc, loadsSeen, firstLoader>>

\* The thumbnail <Document> fails to load: it is given no onLoadError.
ThumbLoadError ==
    /\ thumbDoc = "loading"
    /\ thumbDoc' = "failed"
    /\ lastEvent' = Event("loadError", 1)
    /\ runFrom' = pageNumber
    /\ runLen' = 0
    /\ UNCHANGED <<version, numPages, pageNumber, scale, mainDoc, consoleErrors,
                   loadsSeen, firstLoader>>

\* History of a navigation click named op.
NavHistory(op) ==
    /\ lastEvent' = Event(op, 0)
    /\ runFrom' = IF lastEvent.op = op THEN runFrom ELSE pageNumber
    /\ runLen' = IF lastEvent.op = op THEN runLen + 1 ELSE 1

ClickPrevious ==
    /\ ControlsRendered
    /\ ~PrevDisabled
    /\ pageNumber' = goToPrevPage(pageNumber)
    /\ NavHistory("prev")
    /\ UNCHANGED <<version, numPages, scale, mainDoc, thumbDoc, consoleErrors,
                   loadsSeen, firstLoader>>

ClickNext ==
    /\ ControlsRendered
    /\ ~NextDisabled
    /\ pageNumber' = goToNextPage(numPages, pageNumber)
    /\ NavHistory("next")
    /\ UNCHANGED <<version, numPages, scale, mainDoc, thumbDoc, consoleErrors,
                   loadsSeen, firstLoader>>

ClickThumbnail ==
    \E i \in 1..Len(Thumbnails) :
        /\ ThumbnailsClickable
        /\ pageNumber' = goToPage(Thumbnails[i].page)
        /\ lastEvent' = Event("goToPage", Thumbnails[i].page)
        /\ runFrom' = pageNumber'
        /\ runLen' = 0
        /\ UNCHANGED <<version, numPages, scale, mainDoc, thumbDoc, consoleErrors,
                       loadsSeen, firstLoader>>

ClickZoomIn ==
    /\ version = "thumbnails"
    /\ ~ZoomInDisabled
    /\ scale' = zoomIn(scale)
    /\ lastEvent' = Event("zoomIn", 0)
    /\ runFrom' = pageNumber
    /\ runLen' = 0
    /\ UNCHANGED <<version, numPages, pageNumber, mainDoc, thumbDoc, consoleErrors,
                   loadsSeen, firstLoader>>

ClickZoomOut ==
    /\ version = "thumbnails"
    /\ ~ZoomOutDisabled
    /\ scale' = zoomOut(scale)
    /\ lastEvent' = Event("zoomOut", 0)
    /\ runFrom' = pageNumber
    /\ runLen' = 0
    /\ UNCHANGED <<version, numPages, pageNumber, mainDoc, thumbDoc, consoleErrors,
                   loadsSeen, firstLoader>>

Next ==
    \/ MainLoadSuccess
    \/ ThumbLoadSuccess
    \/ MainLoadError
    \/ ThumbLoadError
    \/ ClickPrevious
    \/ ClickNext
    \/ ClickThumbnail
    \/ ClickZoomIn
    \/ ClickZoomOut

Spec == Init /\ [][Next]_vars

-----------------------------------------------------------------------------
(* Properties *)

PageInRange == numPages # NULL /\ 1 <= pageNumber /\ pageNumber <= numPages

IsLoadStep == loadsSeen' = loadsSeen + 1

IsFailureStep ==
    \/ (mainDoc = "loading" /\ mainDoc' = "failed")
    \/ (thumbDoc = "loading" /\ thumbDoc' = "failed")

\* n applications of the goToNextPage updater, numPages being np throughout.
RECURSIVE NextN(_, _, _)
NextN(n, np, p) == IF n = 0 THEN p ELSE goToNextPage(np, NextN(n - 1, np, p))

\* n applications of the goToPrevPage updater.
RECURSIVE PrevN(_, _)
PrevN(n, p) == IF n = 0 THEN p ELSE goToPrevPage(PrevN(n - 1, p))

\* C1 as stated: whenever totalPages is known, 1 <= currentPage <= totalPages,
\* whatever page counts the loads reported.
C1_PageAlwaysInRange == numPages # NULL => PageInRange

\* C1 amended: currentPage >= 1 always; a load completion whose pageCount is at
\* least the current page establishes 1 <= currentPage <= totalPages, and
\* Previous, Next and a thumbnail click preserve it.
C1_PageInRangeWhenLoadsCover ==
    /\ [](pageNumber >= 1)
    /\ [][ /\ (IsLoadStep /\ numPages' >= pageNumber) => PageInRange'
           /\ (~IsLoadStep /\ PageInRange) => PageInRange' ]_vars

C1_Witness ==
    /\ loadsSeen = 2
    /\ lastEvent.op = "goToPage"
    /\ numPages = 3
    /\ pageNumber = 3

\* C2: a load completion that is not the first one leaves currentPage as it was.
C2_LaterLoadKeepsPage ==
    [][ (loadsSeen >= 1 /\ IsLoadStep) => pageNumber' = pageNumber ]_vars

C2_Witness ==
    /\ loadsSeen = 2
    /\ lastEvent.op = "load"
    /\ numPages = 4
    /\ pageNumber = 3

\* C3: the zoom scale stays within [0.5, 3.0] under any zoomIn/zoomOut sequence.
C3_ZoomInRange == FLe(ZoomFloor, scale) /\ FLe(scale, ZoomCap)

C3_Witness ==
    /\ lastEvent.op = "zoomIn"
    /\ scale = ZoomCap
    /\ FAdd(scale, ZoomStep) # scale

\* C4: from every reachable scale, zoomIn then zoomOut returns to the scale when
\* the zoomIn was not clamped, and zoomOut then zoomIn returns to it when the
\* zoomOut was not clamped.
C4_ZoomRoundTrip ==
    /\ FLe(FAdd(scale, ZoomStep), ZoomCap) => zoomOut(zoomIn(scale)) = scale
    /\ FLe(ZoomFloor, FSub(scale, ZoomStep)) => zoomIn(zoomOut(scale)) = scale

\* A zoomOut has produced a scale from which zoomIn is not clamped and whose sum
\* with the step is not exact, so that the round trip goes through a rounding.
C4_Witness ==
    /\ lastEvent.op = "zoomOut"
    /\ FLe(FAdd(scale, ZoomStep), ZoomCap)
    /\ FAdd(scale, ZoomStep) # Norm(scale[1] + ZoomStep[1], scale[2] + ZoomStep[2])
    /\ zoomIn(scale) # scale

\* C5: n consecutive Next calls from page 1 with totalPages = T give min(T, 1 + n),
\* and Next at the last page changes nothing.
C5_NextRun ==
    /\ (lastEvent.op = "next" /\ runFrom = 1) => pageNumber = Min(numPages, 1 + runLen)
    /\ (numPages # NULL /\ pageNumber = 1) =>
           \A n \in 1..MaxRun : NextN(n, numPages, pageNumber) = Min(numPages, 1 + n)
    /\ (numPages # NULL /\ pageNumber = numPages) =>
           goToNextPage(numPages, pageNumber) = pageNumber

C5_Witness ==
    /\ lastEvent.op = "next"
    /\ runFrom = 1
    /\ runLen = 2
    /\ numPages = 3
    /\ pageNumber = 3

\* C6: n consecutive Previous calls from page k give max(1, k - n), and Previous
\* at page 1 changes nothing.
C6_PrevRun ==
    /\ lastEvent.op = "prev" => pageNumber = Max(1, runFrom - runLen)
    /\ \A n \in 1..MaxRun : PrevN(n, pageNumber) = Max(1, pageNumber - n)

C6_Witness ==
    /\ lastEvent.op = "prev"
    /\ runFrom = 4
    /\ runLen = 3
    /\ pageNumber = 1

\* C7: once totalPages is known the sidebar holds one item per page, in ascending
\* order, active exactly for the current page; a click on the item of page p
\* makes p the current, displayed and active page.
C7_ThumbnailProjection ==
    (version = "thumbnails" /\ numPages # NULL) =>
        /\ Len(Thumbnails) = numPages
        /\ \A p \in 1..numPages :
               /\ Thumbnails[p].page = p
               /\ Thumbnails[p].isActive = (p = pageNumber)
        /\ (numPages = 3 /\ pageNumber = 2) =>
               Thumbnails = << [page |-> 1, isActive |-> FALSE],
                               [page |-> 2, isActive |-> TRUE],
                               [page |-> 3, isActive |-> FALSE] >>
        /\ lastEvent.op = "goToPage" =>
               /\ pageNumber = lastEvent.arg
               /\ DisplayedPage = lastEvent.arg
               /\ Thumbnails[lastEvent.arg].isActive

C7_Witness ==
    /\ lastEvent = Event("goToPage", 2)
    /\ numPages = 3
    /\ pageNumber = 2

\* The first load has just completed with at least two pages.
C8_AfterFirstLoad ==
    (loadsSeen = 1 /\ lastEvent.op = "load" /\ numPages >= 2) =>
        /\ ControlsRendered
        /\ PageLabel = <<1, numPages>>
        /\ PrevDisabled
        /\ ~NextDisabled

\* Next has been clicked once on page 1 after the first load.
C8_AfterOneNext ==
    (loadsSeen = 1 /\ lastEvent.op = "next" /\ runFrom = 1 /\ runLen = 1) =>
        /\ PageLabel = <<2, numPages>>
        /\ ~PrevDisabled

\* C8 as stated: page 1 of T after the first load, page 2 of T after one Next,
\* and with the controls shown Previous is disabled exactly on the first page
\* and Next exactly on the last page.
C8_ButtonsDisabledAtBoundaryPage ==
    /\ C8_AfterFirstLoad
    /\ C8_AfterOneNext
    /\ ControlsRendered =>
           /\ PrevDisabled <=> (pageNumber = 1)
           /\ NextDisabled <=> (pageNumber = numPages)

\* C8 amended: as stated, except that Next is disabled exactly when currentPage
\* is at or beyond the last page, which is "on the last page" whenever
\* currentPage <= totalPages.
C8_ButtonsDisabledAtOrBeyondBoundary ==
    /\ C8_AfterFirstLoad
    /\ C8_AfterOneNext
    /\ ControlsRendered =>
           /\ PrevDisabled <=> (pageNumber = 1)
           /\ NextDisabled <=> (pageNumber >= numPages)
           /\ pageNumber <= numPages => (NextDisabled <=> (pageNumber = numPages))

C8_Witness ==
    /\ loadsSeen = 1
    /\ lastEvent.op = "next"
    /\ runFrom = 1
    /\ runLen = 1
    /\ numPages = 4
    /\ PageLabel = <<2, 4>>

\* C9: every load failure, of the main view or of the thumbnail strip, is reported
\* as an error and changes neither currentPage, totalPages nor zoomScale, and a
\* failed load is never started again.
C9_FailureReportedStateKept ==
    [][ /\ IsFailureStep =>
               /\ consoleErrors' = consoleErrors + 1
               /\ UNCHANGED <<numPages, pageNumber, scale>>
        /\ mainDoc = "failed" => mainDoc' = "failed"
        /\ thumbDoc = "failed" => thumbDoc' = "failed" ]_vars

\* C10: the thumbnail load starts only once totalPages is set, so the first load
\* completion is the main view's, and until then there is no navigation, no
\* thumbnail click and no thumbnail load: currentPage is still 1.
C10_MainLoadFirst ==
    /\ firstLoader # "thumb"
    /\ loadsSeen >= 1 => firstLoader = "main"
    /\ thumbDoc # "unmounted" => Truthy(numPages)
    /\ loadsSeen = 0 =>
           /\ numPages = NULL
           /\ pageNumber = 1
           /\ thumbDoc = "unmounted"
           /\ ~ControlsRendered
           /\ ~ThumbnailsClickable
           /\ lastEvent.op \in {"init", "zoomIn", "zoomOut", "loadError"}

C10_Witness ==
    /\ loadsSeen = 2
    /\ firstLoader = "main"
    /\ thumbDoc = "loaded"
    /\ lastEvent.op = "load"

=============================================================================
